---- MODULE Spec2Model ----
(***************************************************************************)
(* Model of the copy-generation fallback orchestrator of prachar-ai        *)
(* (src/prachar-ai/src/app/api/generate/route.ts): callGeminiDirect with   *)
(* its 1.5 s abort timer, callPollinationsText, parseResponse and          *)
(* generateMarketingCopy.  One action per resumption of the async code     *)
(* (everything between two awaits runs atomically on the JS event loop).   *)
(***************************************************************************)
EXTENDS Integers, Sequences, FiniteSets, TLC

(* ------------------------------ bounds --------------------------------- *)
\* number of generateMarketingCopy invocations explored in one behaviour
MaxRequests == 2

(* --------------------------- JS values --------------------------------- *)
\* A JS value is [t |-> type tag, f |-> its own properties (objects only)].
NoProps == [k \in {} |-> ""]
JObject(r) == [t |-> "object", f |-> r]
JNull == [t |-> "null", f |-> NoProps]
JNumber == [t |-> "number", f |-> NoProps]
NoValue == [t |-> "none", f |-> NoProps]

\* Text is a sequence of tokens; a value that is not a string has no tokens.
Str(s) == [t |-> "string", s |-> s]
Undefined == [t |-> "undefined", s |-> <<>>]
NotAString == [t |-> "number", s |-> <<>>]

(* ----------------------------- tokens ---------------------------------- *)
\* the three-backtick markdown fence marker (one token)
TICKS == "<3 backticks>"
TAGJSON == "json"
NL == "\n"
SP == " "
Whitespace == {NL, SP}

\* complete JSON texts a provider may produce
TxtCta == "{\"hook\":\"H\",\"offer\":\"O\",\"cta\":\"C\"}"
TxtCallToAction == "{\"hook\":\"H\",\"offer\":\"O\",\"callToAction\":\"C\"}"
TxtHookOnly == "{\"hook\":\"H\"}"
TxtEmptyHook == "{\"hook\":\"\",\"offer\":\"O\",\"callToAction\":\"C\"}"
TxtEmptyObject == "{}"
TxtImageUrl == "{\"hook\":\"H\",\"offer\":\"O\",\"cta\":\"C\",\"imageUrl\":\"https://attacker.example/x.png\"}"
TxtNull == "null"
TxtNumber == "42"
\* text that is not JSON
TxtProse == "Sure! Here's your campaign:"

JSONTexts ==
  {TxtCta, TxtCallToAction, TxtHookOnly, TxtEmptyHook, TxtEmptyObject, TxtImageUrl,
   TxtNull, TxtNumber}

\* the value JSON.parse yields for each complete JSON text
JSONValue(tok) ==
  CASE tok = TxtCta -> JObject([hook |-> "H", offer |-> "O", cta |-> "C"])
    [] tok = TxtCallToAction -> JObject([hook |-> "H", offer |-> "O", callToAction |-> "C"])
    [] tok = TxtHookOnly -> JObject([hook |-> "H"])
    [] tok = TxtEmptyHook -> JObject([hook |-> "", offer |-> "O", callToAction |-> "C"])
    [] tok = TxtEmptyObject -> JObject(NoProps)
    [] tok = TxtImageUrl ->
         JObject([hook |-> "H", offer |-> "O", cta |-> "C",
                  imageUrl |-> <<"https://attacker.example/x.png">>])
    [] tok = TxtNull -> JNull
    [] tok = TxtNumber -> JNumber
    [] OTHER -> NoValue

(* --------------------------- parseResponse ----------------------------- *)
\* outcome of a call: a returned value or a thrown exception
Returns(v) == [ok |-> TRUE, v |-> v]
Throws == [ok |-> FALSE, v |-> NoValue]

\* String.prototype.replace(/<3 backticks>json/g, ''): one left-to-right pass
RECURSIVE StripJsonFence(_)
StripJsonFence(s) ==
  IF s = <<>> THEN <<>>
  ELSE IF Len(s) >= 2 /\ s[1] = TICKS /\ s[2] = TAGJSON
       THEN StripJsonFence(SubSeq(s, 3, Len(s)))
       ELSE <<s[1]>> \o StripJsonFence(Tail(s))

\* faulty variant: the regex lacks the g flag, only the first fence is removed
RECURSIVE StripFenceFirstOnly(_)
StripFenceFirstOnly(s) ==
  IF s = <<>> THEN <<>>
  ELSE IF s[1] = TICKS THEN Tail(s)
       ELSE <<s[1]>> \o StripFenceFirstOnly(Tail(s))

\* String.prototype.replace(/<3 backticks>/g, '')
StripFence(s) == SelectSeq(s, LAMBDA tok : tok /= TICKS)

\* String.prototype.trim()
RECURSIVE TrimStart(_)
TrimStart(s) ==
  IF s /= <<>> /\ s[1] \in Whitespace THEN TrimStart(Tail(s)) ELSE s

RECURSIVE TrimEnd(_)
TrimEnd(s) ==
  IF s /= <<>> /\ s[Len(s)] \in Whitespace
  THEN TrimEnd(SubSeq(s, 1, Len(s) - 1)) ELSE s

Trim(s) == TrimEnd(TrimStart(s))

\* text.replace(fence+json, '').replace(fence, '').trim()
cleanText(s) == Trim(StripFence(StripJsonFence(s)))

\* JSON.parse: one complete JSON text (optionally surrounded by whitespace)
\* yields its value, anything else is a SyntaxError
JSONParse(s) ==
  LET c == Trim(s) IN
  IF Len(c) = 1 /\ c[1] \in JSONTexts THEN Returns(JSONValue(c[1])) ELSE Throws

\* the literal returned by the catch block of parseResponse
ParserDefault ==
  JObject([hook |-> "Innovation meets Tradition. Perfect choice.",
           offer |-> "Exclusive Member Pricing Applied",
           cta |-> "Explore Collection"])

\* the try block of parseResponse: text.replace on a non-string is a TypeError
ParseTry(text) ==
  IF text.t /= "string" THEN Throws ELSE JSONParse(cleanText(text.s))

\* faulty variant: the fences are not stripped before JSON.parse
parseResponseNoStrip(text) ==
  LET r == IF text.t /= "string" THEN Throws ELSE JSONParse(text.s) IN
  IF r.ok THEN r ELSE Returns(ParserDefault)

\* faulty variant: the body of parseResponse is not wrapped in try/catch
parseResponseNoCatch(text) == ParseTry(text)

parseResponse(text) ==
  LET r == ParseTry(text) IN
  IF r.ok THEN r ELSE Returns(ParserDefault)

(* ------------------------------ prompts -------------------------------- *)
ELITE_SYSTEM_PROMPT == "<ELITE_SYSTEM_PROMPT>"

\* the brief composed by generateMarketingCopy
userRequest(t, b) == <<"Business Type: ", b, ", Campaign Topic: ", t>>

\* the prompt either tier sends: system prompt, then the brief
fullPrompt(prompt) == <<ELITE_SYSTEM_PROMPT, "\n\nBrand Focus: ">> \o prompt

(* ------------------------- provider behaviour -------------------------- *)
\* a string holding an unpaired UTF-16 surrogate (JSON request bodies can carry one)
LoneSurrogate == "<lone surrogate U+D800>"

Topics == {"", "Diwali Sale", LoneSurrogate}
BusinessTypes == {"", "Sweet Shop"}

\* encodeURIComponent throws a URIError on an unpaired surrogate
Encodable(p) == \A i \in 1..Len(p) : p[i] /= LoneSurrogate

Prefixes == {<<>>, <<TICKS, TAGJSON, NL>>, <<TICKS, NL>>, <<TxtProse, NL>>}
Suffixes == {<<>>, <<NL, TICKS>>, <<NL, TICKS, NL>>}
Bodies == JSONTexts \cup {TxtProse}

\* the raw texts a provider may answer with
RawTexts ==
  {Str(<<>>)} \cup {Str(pre \o <<b>> \o suf) : pre \in Prefixes, b \in Bodies, suf \in Suffixes}

\* what response.json() of the primary provider can settle to: a rejection
\* (body is not JSON or the stream breaks), data without the candidates
\* path, or data whose candidates[0].content.parts[0].text is any value
GeminiBodies ==
  {[kind |-> "badjson", text |-> Undefined], [kind |-> "nopath", text |-> Undefined]}
    \cup {[kind |-> "data", text |-> t] : t \in RawTexts \cup {Undefined, NotAString}}

\* data.candidates[0].content.parts[0].text
GeminiExtract(d) ==
  IF d.kind = "data" THEN [ok |-> TRUE, text |-> d.text] ELSE [ok |-> FALSE, text |-> Undefined]

(* ------------------------------- state --------------------------------- *)
VARIABLES
  apiKey,        \* process.env.NEXT_PUBLIC_GEMINI_API_KEY is set
  requests,      \* invocations of generateMarketingCopy so far
  topic, businessType,
  pc,            \* where the invocation is suspended
  region,        \* the try block of generateMarketingCopy that is executing
  gemini,        \* the primary network call
  poll,          \* the secondary network call
  timer,         \* the setTimeout of callGeminiDirect
  elapsed,       \* 1500 ms have passed since that setTimeout
  geminiCalls,   \* fetch calls made to the primary provider
  pollCalls,     \* fetch calls made to the secondary provider
  log,           \* tier functions invoked, in order, with their argument
  geminiText,    \* what callGeminiDirect returned
  pollText,      \* what callPollinationsText returned
  geminiLate,    \* the primary body settled after the 1500 ms had passed
  result,        \* the value generateMarketingCopy returned
  resultFrom,    \* the return statement that produced it
  cancelled,     \* the client went away while the invocation was running
  post,          \* where the POST handler is suspended
  body,          \* what request.json() of the POST handler settled to
  response,      \* the response the POST handler returned
  postLog,       \* the functions the POST handler has called, in order
  poster,        \* the url generatePoster returned to the POST handler
  peer           \* a second invocation running interleaved with this one

vars ==
  <<apiKey, requests, topic, businessType, pc, region, gemini, poll, timer, elapsed,
    geminiCalls, pollCalls, log, geminiText, pollText, geminiLate, result, resultFrom,
    cancelled, post, body, response, postLog, poster, peer>>

\* the variables of the POST handler
postvars == <<post, body, response, postLog, poster>>

\* the variables of the first invocation
mainvars ==
  <<requests, topic, businessType, pc, region, gemini, poll, timer, elapsed,
    geminiCalls, pollCalls, log, geminiText, pollText, geminiLate, result, resultFrom,
    cancelled>>

NoText == [t |-> "none", s |-> <<>>]

\* the invocation as a record; thrown marks an exception in flight
Cur ==
  [apiKey |-> apiKey, topic |-> topic, businessType |-> businessType,
   pc |-> pc, region |-> region, gemini |-> gemini, poll |-> poll, timer |-> timer,
   elapsed |-> elapsed, geminiCalls |-> geminiCalls, pollCalls |-> pollCalls,
   log |-> log, geminiText |-> geminiText, pollText |-> pollText,
   geminiLate |-> geminiLate, result |-> result, resultFrom |-> resultFrom,
   cancelled |-> cancelled, thrown |-> FALSE]

\* faulty variant: the call log and the call counters live at module level
\* and are not re-created per invocation
FreshKeepsCounters(t, b) ==
  [apiKey |-> apiKey, topic |-> t, businessType |-> b,
   pc |-> "idle", region |-> "none", gemini |-> "idle", poll |-> "idle", timer |-> "none",
   elapsed |-> FALSE, geminiCalls |-> geminiCalls, pollCalls |-> pollCalls,
   log |-> log, geminiText |-> NoText, pollText |-> NoText,
   geminiLate |-> FALSE, result |-> NoValue, resultFrom |-> "none",
   cancelled |-> FALSE, thrown |-> FALSE]

\* the locals of a new invocation: nothing survives from an earlier one
Fresh(t, b) ==
  [apiKey |-> apiKey, topic |-> t, businessType |-> b,
   pc |-> "idle", region |-> "none", gemini |-> "idle", poll |-> "idle", timer |-> "none",
   elapsed |-> FALSE, geminiCalls |-> 0, pollCalls |-> 0,
   log |-> <<>>, geminiText |-> NoText, pollText |-> NoText,
   geminiLate |-> FALSE, result |-> NoValue, resultFrom |-> "none",
   cancelled |-> FALSE, thrown |-> FALSE]

ApplyMain(s) ==
  /\ topic' = s.topic /\ businessType' = s.businessType
  /\ pc' = s.pc /\ region' = s.region /\ gemini' = s.gemini /\ poll' = s.poll
  /\ timer' = s.timer /\ elapsed' = s.elapsed
  /\ geminiCalls' = s.geminiCalls /\ pollCalls' = s.pollCalls /\ log' = s.log
  /\ geminiText' = s.geminiText /\ pollText' = s.pollText /\ geminiLate' = s.geminiLate
  /\ result' = s.result /\ resultFrom' = s.resultFrom
  /\ cancelled' = s.cancelled
  /\ UNCHANGED apiKey

\* a step of the first invocation alone
Apply(s) == ApplyMain(s) /\ UNCHANGED <<peer, postvars>>

(* -------------------------- the two tiers ------------------------------ *)
\* faulty variant: the key is not checked before the fetch
callGeminiDirectNoKeyCheck(s, prompt) ==
  [s EXCEPT !.log = Append(@, [tier |-> "gemini", prompt |-> fullPrompt(prompt)]),
            !.timer = "armed", !.elapsed = FALSE, !.gemini = "pending",
            !.geminiCalls = @ + 1, !.pc = "gemini_fetch"]

\* callGeminiDirect up to its first await: without a key it throws, else it
\* arms the 1500 ms timer and starts the fetch
callGeminiDirect(s, prompt) ==
  LET s1 == [s EXCEPT !.log = Append(@, [tier |-> "gemini", prompt |-> fullPrompt(prompt)])] IN
  IF ~s1.apiKey THEN [s1 EXCEPT !.thrown = TRUE]
  ELSE [s1 EXCEPT !.timer = "armed", !.elapsed = FALSE, !.gemini = "pending",
                  !.geminiCalls = @ + 1, !.pc = "gemini_fetch"]

\* faulty variant: the secondary tier sends the brief without the system prompt
callPollinationsTextBare(s, prompt) ==
  LET s1 == [s EXCEPT !.log = Append(@, [tier |-> "pollinations", prompt |-> prompt])] IN
  IF ~Encodable(prompt) THEN [s1 EXCEPT !.thrown = TRUE]
  ELSE [s1 EXCEPT !.poll = "pending", !.pollCalls = @ + 1, !.pc = "poll_fetch"]

\* callPollinationsText up to its first await: encodes the prompt into the
\* url (which can throw) and starts the fetch
callPollinationsText(s, prompt) ==
  LET s1 == [s EXCEPT !.log = Append(@, [tier |-> "pollinations", prompt |-> fullPrompt(prompt)])] IN
  IF ~Encodable(fullPrompt(prompt)) THEN [s1 EXCEPT !.thrown = TRUE]
  ELSE [s1 EXCEPT !.poll = "pending", !.pollCalls = @ + 1, !.pc = "poll_fetch"]

\* faulty variant: the fetch was started without the abort signal
OnAbortNoSignal(g) == g

\* controller.abort() reaches the fetch through signal: a pending call is cancelled
OnAbort(g) == IF g \in {"pending", "streaming"} THEN "aborted" ELSE g

(* --------------------------- orchestrator ------------------------------ *)
\* faulty variant: the literal of the innermost catch lacks its third field
StaticDefaultPartial ==
  JObject([hook |-> "Redefine Excellence. Aaj hi shuru karein.",
           offer |-> "Premium Launch Privilege: 20% Advantage"])

\* faulty variant: the innermost catch returns the wrong literal
StaticDefaultWrong ==
  JObject([hook |-> "Innovation meets Tradition. Perfect choice.",
           offer |-> "Exclusive Member Pricing Applied",
           cta |-> "Explore Collection"])

\* the literal returned by the innermost catch of generateMarketingCopy
StaticDefault ==
  JObject([hook |-> "Redefine Excellence. Aaj hi shuru karein.",
           offer |-> "Premium Launch Privilege: 20% Advantage",
           cta |-> "Experience the Future"])

\* faulty variant: the backup try block calls the primary tier again
TierOfGeminiOnly(r) == "gemini"

\* the tier function each try block of generateMarketingCopy calls
TierOf(r) == IF r = "try1" THEN "gemini" ELSE "pollinations"

\* faulty variant: the primary call is not wrapped in a try/catch
CatchOfNoOuter(r) == IF r = "try2" THEN "err2" ELSE "uncaught"

\* faulty variant: the backup call is not wrapped in a try/catch
CatchOfNoInner(r) == IF r = "try1" THEN "err1" ELSE "uncaught"

\* the catch clause that receives an exception thrown in a try block
CatchOf(r) == IF r = "try1" THEN "err1" ELSE IF r = "try2" THEN "err2" ELSE "uncaught"

\* faulty variant: empty arguments are rejected up front with the static default
EnterTryValidating(s, r) ==
  LET s1 == [s EXCEPT !.region = r]
      p == userRequest(s.topic, s.businessType) IN
  IF s.topic = "" \/ s.businessType = "" THEN [s EXCEPT !.result = StaticDefault, !.resultFrom = "static", !.pc = "returned"]
  ELSE IF TierOf(r) = "gemini" THEN callGeminiDirect(s1, p) ELSE callPollinationsText(s1, p)

\* entering a try block of generateMarketingCopy: the tier function is
\* called with userRequest, whatever the arguments are
EnterTry(s, r) ==
  LET s1 == [s EXCEPT !.region = r]
      p == userRequest(s.topic, s.businessType) IN
  IF TierOf(r) = "gemini" THEN callGeminiDirect(s1, p) ELSE callPollinationsText(s1, p)

ReturnValue(s, v, from) ==
  [s EXCEPT !.result = v, !.resultFrom = from, !.pc = "returned", !.region = "none"]

\* return parseResponse(text), inside the try block that obtained text
ReturnParsed(s, text, from) ==
  LET r == parseResponse(text) IN
  IF r.ok THEN ReturnValue(s, r.v, from) ELSE [s EXCEPT !.thrown = TRUE]

\* run the catch clauses until no exception is in flight
RECURSIVE Settle(_)
Settle(s) ==
  IF ~s.thrown THEN s
  ELSE LET h == CatchOf(s.region)
           s1 == [s EXCEPT !.thrown = FALSE] IN
       CASE h = "err1" -> Settle(EnterTry(s1, "try2"))
         [] h = "err2" -> ReturnValue(s1, StaticDefault, "static")
         [] OTHER -> [s1 EXCEPT !.pc = "rejected", !.region = "none"]

(* ------------------------ resumptions of an invocation ----------------- *)
\* fetch of callGeminiDirect resolved: clearTimeout, then the status check
FetchResolved(s, ok) ==
  LET s1 == [s EXCEPT !.timer = "cleared"] IN
  IF ok THEN [s1 EXCEPT !.pc = "gemini_json", !.gemini = "streaming"]
  ELSE [s1 EXCEPT !.gemini = "unread", !.thrown = TRUE]

\* fetch of callGeminiDirect rejected with a connection error
FetchRejected(s) == [s EXCEPT !.gemini = "failed", !.thrown = TRUE]

\* controller.abort(): a call still using the signal rejects with AbortError
Aborted(s) ==
  LET s1 == [s EXCEPT !.gemini = OnAbort(@)] IN
  IF s.pc \in {"gemini_fetch", "gemini_json"} THEN [s1 EXCEPT !.thrown = TRUE] ELSE s1

\* 1500 ms after setTimeout: an armed timer runs its callback
DeadlinePassed(s) ==
  LET s1 == [s EXCEPT !.elapsed = TRUE] IN
  IF s.timer = "armed" THEN Aborted([s1 EXCEPT !.timer = "fired"]) ELSE s1

\* response.json() settled; the text is extracted and line 121 parses it
JsonSettled(s, d) ==
  LET s1 == [s EXCEPT !.geminiLate = s.elapsed]
      x == GeminiExtract(d) IN
  IF d.kind = "badjson" THEN [s1 EXCEPT !.gemini = "failed", !.thrown = TRUE]
  ELSE IF ~x.ok THEN [s1 EXCEPT !.gemini = "done", !.thrown = TRUE]
  ELSE ReturnParsed([s1 EXCEPT !.gemini = "done", !.geminiText = x.text], x.text, "gemini")

\* fetch of callPollinationsText resolved: the status check
PollResolved(s, ok) ==
  IF ok THEN [s EXCEPT !.pc = "poll_text", !.poll = "streaming"]
  ELSE [s EXCEPT !.poll = "unread", !.thrown = TRUE]

\* fetch of callPollinationsText rejected with a connection error
PollRejected(s) == [s EXCEPT !.poll = "failed", !.thrown = TRUE]

\* response.text() resolved and line 127 parses the text
PollTextRead(s, text) ==
  ReturnParsed([s EXCEPT !.poll = "done", !.pollText = text], text, "pollinations")

\* response.text() rejected
PollTextBroken(s) == [s EXCEPT !.poll = "broken", !.thrown = TRUE]

\* faulty variant: one AbortController at module level serves every call
AbortReachShared(self) == {"main", "peer"}

\* the invocations whose fetch holds the signal of the controller that the
\* timer of invocation self aborts: controller is a local of the call
AbortReach(self) == {self}

(* ------------------------------ actions -------------------------------- *)
Init ==
  /\ apiKey \in BOOLEAN
  /\ requests = 0
  /\ topic = "" /\ businessType = ""
  /\ pc = "idle" /\ region = "none" /\ gemini = "idle" /\ poll = "idle"
  /\ timer = "none" /\ elapsed = FALSE
  /\ geminiCalls = 0 /\ pollCalls = 0 /\ log = <<>>
  /\ geminiText = NoText /\ pollText = NoText /\ geminiLate = FALSE
  /\ result = NoValue /\ resultFrom = "none"
  /\ cancelled = FALSE
  /\ post = "idle" /\ body = [kind |-> "none", business |-> "<undefined>", topic |-> "<undefined>"]
  /\ response = [status |-> 0, body |-> NoValue]
  /\ postLog = <<>> /\ poster = <<>>
  /\ peer = Fresh("", "")

\* a caller invokes generateMarketingCopy(topic, businessType)
Invoke ==
  /\ pc \in {"idle", "returned", "rejected"}
  /\ requests < MaxRequests
  /\ requests' = requests + 1
  /\ \E t \in Topics, b \in BusinessTypes : Apply(Settle(EnterTry(Fresh(t, b), "try1")))

\* the primary fetch resolves with a response (status ok or not)
GeminiFetchResolve ==
  /\ pc = "gemini_fetch"
  /\ \E ok \in BOOLEAN : Apply(Settle(FetchResolved(Cur, ok)))
  /\ UNCHANGED requests

\* the primary fetch rejects with a connection error
GeminiFetchReject ==
  /\ pc = "gemini_fetch"
  /\ Apply(Settle(FetchRejected(Cur)))
  /\ UNCHANGED requests

\* 1500 ms have passed: an armed timer runs controller.abort()
DeadlineElapse ==
  /\ timer \in {"armed", "cleared"}
  /\ ~elapsed
  /\ ApplyMain(Settle(DeadlinePassed(Cur)))
  /\ peer' = IF timer = "armed" /\ "peer" \in AbortReach("main")
             THEN Settle(Aborted(peer)) ELSE peer
  /\ UNCHANGED postvars
  /\ UNCHANGED requests

\* await response.json() settles, then the text is extracted and parsed
GeminiJsonSettle ==
  /\ pc = "gemini_json"
  /\ \E d \in GeminiBodies : Apply(Settle(JsonSettled(Cur, d)))
  /\ UNCHANGED requests

\* the secondary fetch resolves with a response (status ok or not)
PollFetchResolve ==
  /\ pc = "poll_fetch"
  /\ \E ok \in BOOLEAN : Apply(Settle(PollResolved(Cur, ok)))
  /\ UNCHANGED requests

\* the secondary fetch rejects with a connection error
PollFetchReject ==
  /\ pc = "poll_fetch"
  /\ Apply(Settle(PollRejected(Cur)))
  /\ UNCHANGED requests

\* await response.text() resolves, then the text is parsed
PollTextResolve ==
  /\ pc = "poll_text"
  /\ \E text \in RawTexts : Apply(Settle(PollTextRead(Cur, text)))
  /\ UNCHANGED requests

\* await response.text() rejects (the body stream breaks)
PollTextReject ==
  /\ pc = "poll_text"
  /\ Apply(Settle(PollTextBroken(Cur)))
  /\ UNCHANGED requests

\* the client disconnects while generateMarketingCopy is suspended: no
\* signal of the request is passed to generateMarketingCopy or to a fetch,
\* so nothing but the fact itself changes
ClientDisconnect ==
  /\ pc \in {"gemini_fetch", "gemini_json", "poll_fetch", "poll_text"}
  /\ ~cancelled
  /\ Apply([Cur EXCEPT !.cancelled = TRUE])
  /\ UNCHANGED requests

Next ==
  \/ Invoke
  \/ ClientDisconnect
  \/ GeminiFetchResolve
  \/ GeminiFetchReject
  \/ DeadlineElapse
  \/ GeminiJsonSettle
  \/ PollFetchResolve
  \/ PollFetchReject
  \/ PollTextResolve
  \/ PollTextReject

Spec == Init /\ [][Next]_vars

(* ------------------- a second, interleaved invocation ------------------ *)
\* what the providers answer to the second invocation
PeerBodies == {[kind |-> "badjson", text |-> Undefined], [kind |-> "data", text |-> Str(<<TxtCta>>)]}
PeerTexts == {Str(<<TxtCta>>), Str(<<TxtProse>>)}

\* a step of the second invocation alone
ApplyPeer(s) == peer' = s /\ UNCHANGED <<apiKey, mainvars, postvars>>

PeerInvoke ==
  /\ peer.pc = "idle"
  /\ ApplyPeer(Settle(EnterTry(Fresh("Diwali Sale", "Sweet Shop"), "try1")))

PeerGeminiFetch ==
  /\ peer.pc = "gemini_fetch"
  /\ \/ \E ok \in BOOLEAN : ApplyPeer(Settle(FetchResolved(peer, ok)))
     \/ ApplyPeer(Settle(FetchRejected(peer)))

\* the timer of the second invocation fires
PeerDeadlineElapse ==
  /\ peer.timer = "armed"
  /\ peer' = Settle(DeadlinePassed(peer))
  /\ UNCHANGED postvars
  /\ IF "main" \in AbortReach("peer")
     THEN ApplyMain(Settle(Aborted(Cur))) /\ UNCHANGED requests
     ELSE UNCHANGED <<apiKey, mainvars>>

PeerGeminiJson ==
  /\ peer.pc = "gemini_json"
  /\ \E d \in PeerBodies : ApplyPeer(Settle(JsonSettled(peer, d)))

PeerPollFetch ==
  /\ peer.pc = "poll_fetch"
  /\ \/ \E ok \in BOOLEAN : ApplyPeer(Settle(PollResolved(peer, ok)))
     \/ ApplyPeer(Settle(PollRejected(peer)))

PeerPollText ==
  /\ peer.pc = "poll_text"
  /\ \/ \E text \in PeerTexts : ApplyPeer(Settle(PollTextRead(peer, text)))
     \/ ApplyPeer(Settle(PollTextBroken(peer)))

ConcNext ==
  \/ Next
  \/ PeerInvoke
  \/ PeerGeminiFetch
  \/ PeerDeadlineElapse
  \/ PeerGeminiJson
  \/ PeerPollFetch
  \/ PeerPollText

\* two invocations served in parallel by the host
ConcSpec == Init /\ [][ConcNext]_vars

\* the event loop runs a due timer, and the secondary provider is assumed to
\* answer or fail eventually; nothing is assumed of the primary provider
FairSpec ==
  /\ Spec
  /\ WF_vars(DeadlineElapse)
  /\ WF_vars(PollFetchResolve \/ PollFetchReject)
  /\ WF_vars(PollTextResolve \/ PollTextReject)

(* --------------------------- the POST handler -------------------------- *)
\* a property the request body does not have
MissingField == "<undefined>"

\* !x is false
Truthy(x) == x \notin {"", MissingField}

NoBody == [kind |-> "none", business |-> MissingField, topic |-> MissingField]

\* what request.json() can settle to: a rejection (the body is not JSON),
\* null, or an object whose business and topic are absent or strings
PostBodies ==
  {[kind |-> k, business |-> MissingField, topic |-> MissingField] : k \in {"unreadable", "null"}}
    \cup {[kind |-> "object", business |-> b, topic |-> t] :
             b \in {MissingField, "", "Sweet Shop"},
             t \in {MissingField, "", "Diwali Sale", LoneSurrogate}}

\* await request.json() rejects, or destructuring null throws a TypeError
BodyThrows(b) == b.kind \in {"unreadable", "null"}

\* the validation of line 10 passes
Valid(b) == Truthy(b.business) /\ Truthy(b.topic)

NoResponse == [status |-> 0, body |-> NoValue]
Resp400 == [status |-> 400, body |-> JObject([error |-> "Business and Topic are required"])]
Resp500 == [status |-> 500, body |-> JObject([error |-> "Failed to generate campaign"])]

\* urls are sequences of tokens
NoUrl == <<>>

\* values of Math.floor(Math.random() * 1000000)
Seeds == {"0", "999999"}

posterPrompt(t, b) ==
  <<"Professional 3D cinematic commercial photography of ", t, " for ", b,
    ", luxury studio lighting, 8k resolution, highly detailed masterpiece, sharp focus">>

\* generatePoster with the default engine: encodeURIComponent can throw
generatePoster(t, b, seed) ==
  IF ~Encodable(posterPrompt(t, b)) THEN [ok |-> FALSE, url |-> NoUrl]
  ELSE [ok |-> TRUE,
        url |-> <<"https://pollinations.ai/p/", "encodeURIComponent(">> \o posterPrompt(t, b)
                  \o <<")", "?width=1080&height=1080&model=flux&seed=", seed,
                       "&nologo=true&enhance=true">>]

\* the own properties an object spread copies from a value
OwnProps(v) == IF v.t = "object" THEN v.f ELSE NoProps

\* faulty variant: imageUrl is written before the spread
SpreadImageFirst(strategy, url) ==
  LET f == OwnProps(strategy) IN
  JObject([k \in DOMAIN f \cup {"imageUrl"} |-> IF k \in DOMAIN f THEN f[k] ELSE url])

\* the object literal of lines 24-27: the spread first, imageUrl after it
Spread(strategy, url) ==
  LET f == OwnProps(strategy) IN
  JObject([k \in DOMAIN f \cup {"imageUrl"} |-> IF k = "imageUrl" THEN url ELSE f[k]])

\* faulty variant: the promise of generateMarketingCopy is not awaited
CopySettledAnytime(p) == TRUE

\* the await of line 18 resumes once generateMarketingCopy has settled
CopySettled(p) == p \in {"returned", "rejected"}

\* the route handler is called and suspends at await request.json()
PostReceive ==
  /\ post \in {"idle", "responded"}
  /\ pc \in {"idle", "returned", "rejected"}
  /\ requests < MaxRequests
  /\ post' = "body" /\ body' = NoBody /\ response' = NoResponse
  /\ postLog' = <<>> /\ poster' = NoUrl
  /\ UNCHANGED <<apiKey, mainvars, peer>>

\* request.json() settles: lines 6-18 up to the await of generateMarketingCopy
PostBodySettle ==
  /\ post = "body"
  /\ \E b \in PostBodies :
       /\ body' = b
       /\ IF BodyThrows(b) \/ ~Valid(b)
          THEN /\ post' = "responded"
               /\ response' = IF BodyThrows(b) THEN Resp500 ELSE Resp400
               /\ UNCHANGED <<postLog, poster, apiKey, mainvars, peer>>
          ELSE /\ post' = "copy"
               /\ postLog' = <<"generateMarketingCopy">>
               /\ requests' = requests + 1
               /\ ApplyMain(Settle(EnterTry(Fresh(b.topic, b.business), "try1")))
               /\ UNCHANGED <<response, poster, peer>>

\* generateMarketingCopy has settled: lines 18-27, or the catch of line 28
PostCopyReturn ==
  /\ post = "copy"
  /\ CopySettled(pc)
  /\ post' = "responded"
  /\ IF pc = "rejected"
     THEN response' = Resp500 /\ UNCHANGED <<postLog, poster>>
     ELSE \E seed \in Seeds :
            LET r == generatePoster(body.topic, body.business, seed) IN
            /\ postLog' = Append(postLog, "generatePoster")
            /\ poster' = r.url
            /\ response' = IF r.ok THEN [status |-> 200, body |-> Spread(result, r.url)]
                           ELSE Resp500
  /\ UNCHANGED <<body, apiKey, mainvars, peer>>

PostNext ==
  \/ PostReceive
  \/ PostBodySettle
  \/ PostCopyReturn
  \/ ClientDisconnect
  \/ GeminiFetchResolve
  \/ GeminiFetchReject
  \/ DeadlineElapse
  \/ GeminiJsonSettle
  \/ PollFetchResolve
  \/ PollFetchReject
  \/ PollTextResolve
  \/ PollTextReject

\* the server handling POST requests one after the other
PostSpec == Init /\ [][PostNext]_vars

\* as FairSpec; in addition the request body is assumed to arrive or fail,
\* and the handler resumes when the promise it awaits has settled
PostFairSpec ==
  /\ PostSpec
  /\ WF_vars(DeadlineElapse)
  /\ WF_vars(PollFetchResolve \/ PollFetchReject)
  /\ WF_vars(PollTextResolve \/ PollTextReject)
  /\ WF_vars(PostBodySettle)
  /\ WF_vars(PostCopyReturn)

TypeOK ==
  /\ pc \in {"idle", "gemini_fetch", "gemini_json", "poll_fetch", "poll_text", "returned", "rejected"}
  /\ region \in {"none", "try1", "try2"}
  /\ gemini \in {"idle", "pending", "streaming", "unread", "done", "failed", "aborted"}
  /\ poll \in {"idle", "pending", "streaming", "unread", "done", "failed", "broken"}
  /\ timer \in {"none", "armed", "cleared", "fired"}
  /\ requests \in 0..MaxRequests
  /\ post \in {"idle", "body", "copy", "responded"}
  /\ response.status \in {0, 200, 400, 500}
  /\ Len(postLog) <= 2

(* ------------------------- vocabulary of claims ------------------------ *)
\* the call-to-action field: callToAction in the output schema, cta in the
\* prompt and the literals of the code; either key is accepted
CallToActionKeys == {"callToAction", "cta"}

\* v is an object that has all of hook, offer and call-to-action, none empty
CompleteCopy(v) ==
  /\ v.t = "object"
  /\ \A k \in {"hook", "offer"} : k \in DOMAIN v.f /\ v.f[k] /= ""
  /\ \E k \in CallToActionKeys : k \in DOMAIN v.f /\ v.f[k] /= ""

\* text is a string that is JSON once fences and outer whitespace are removed
Parseable(text) == text.t = "string" /\ JSONParse(cleanText(text.s)).ok

ParsedValue(text) == JSONParse(cleanText(text.s)).v

\* text from which the parser obtains a complete CampaignCopy
YieldsCopy(text) == Parseable(text) /\ CompleteCopy(ParsedValue(text))

\* the network call of a tier is in flight
GeminiInFlight == gemini \in {"pending", "streaming"}
PollInFlight == poll \in {"pending", "streaming"}

\* the tier functions invoked so far, in order
TierSeq == [i \in 1..Len(log) |-> log[i].tier]

\* callPollinationsText has been invoked in this orchestration
SecondaryInvoked == \E i \in 1..Len(log) : log[i].tier = "pollinations"

(* -------------------------------- C1 ----------------------------------- *)
\* C1: every value generateMarketingCopy returns is an object in which hook,
\* offer and the call-to-action are all present and non-empty (never a
\* partial object).
C1_AlwaysValidOutput == pc = "returned" => CompleteCopy(result)

(* -------------------------------- C2 ----------------------------------- *)
\* C2: whenever the primary tier returned, within budget, text that is not
\* valid JSON or lacks one of the three fields, the secondary tier has been
\* invoked by the time generateMarketingCopy returns.
C2_ParseFailureTriggersFallback ==
  (pc = "returned" /\ geminiText.t = "string" /\ ~geminiLate /\ ~YieldsCopy(geminiText))
    => SecondaryInvoked

(* -------------------------------- C3 ----------------------------------- *)
\* C3: generateMarketingCopy never throws (its promise never rejects); an
\* invocation that completes has returned a value.
C3_NeverThrows ==
  /\ pc /= "rejected"
  /\ pc = "returned" => result /= NoValue
  /\ pc \in {"idle", "returned"} <=> region = "none"

\* both providers failed, each in a different way, and a value was returned
C3_Witness ==
  /\ pc = "returned" /\ result /= NoValue
  /\ gemini = "aborted" /\ poll = "broken"

(* -------------------------------- C4 ----------------------------------- *)
\* C4: if the primary response had not fully arrived when the 1.5 s deadline
\* elapsed, the secondary tier was invoked and the returned value does not
\* come from the primary response.
C4_TimeoutTriggersFallback ==
  (pc = "returned" /\ (geminiLate \/ gemini = "aborted"))
    => (SecondaryInvoked /\ resultFrom /= "gemini")

(* -------------------------------- C5 ----------------------------------- *)
\* C5: when the primary tier responds within budget with parseable output,
\* the secondary tier is invoked zero times and the returned value is the
\* parsed primary output.
C5_PrimarySuccessShortCircuit ==
  (Parseable(geminiText) /\ ~geminiLate)
    => /\ pc = "returned" /\ resultFrom = "gemini"
       /\ result = ParsedValue(geminiText)
       /\ pollCalls = 0 /\ poll = "idle"
       /\ TierSeq = <<"gemini">>

\* the primary tier answered in time with fenced JSON and it was returned
C5_Witness ==
  /\ pc = "returned" /\ ~elapsed
  /\ geminiText = Str(<<TICKS, TAGJSON, NL, TxtCta, NL, TICKS>>)
  /\ result = JObject([hook |-> "H", offer |-> "O", cta |-> "C"])
  /\ pollCalls = 0

(* -------------------------------- C6 ----------------------------------- *)
\* C6: when the primary tier has failed and the secondary call fails too
\* (connection error, non-success status, broken body), the step in which it
\* fails returns the fixed static default object and makes no network call.
C6_TotalFailureDefault ==
  [][(pc \in {"poll_fetch", "poll_text"} /\ poll' \in {"failed", "unread", "broken"})
       => /\ pc' = "returned" /\ resultFrom' = "static"
          /\ result' = JObject([hook |-> "Redefine Excellence. Aaj hi shuru karein.",
                                offer |-> "Premium Launch Privilege: 20% Advantage",
                                cta |-> "Experience the Future"])
          /\ geminiCalls' = geminiCalls /\ pollCalls' = pollCalls
          /\ ~GeminiInFlight']_vars

\* a connection error on the primary tier, a non-success status on the secondary
C6_Witness ==
  /\ pc = "returned" /\ resultFrom = "static"
  /\ gemini = "failed" /\ poll = "unread"
  /\ geminiCalls = 1 /\ pollCalls = 1

(* -------------------------------- C7 ----------------------------------- *)
\* C7: if the primary tier failed and the secondary tier returned text that
\* the parser cannot turn into a CampaignCopy, the result is the same static
\* default object as when both tiers fail with network errors.
C7_SecondaryParseFailureDefault ==
  (pc = "returned" /\ pollText /= NoText /\ ~YieldsCopy(pollText))
    => result = StaticDefault

(* -------------------------------- C8 ----------------------------------- *)
\* the returned value is one of the literals in the code, not provider output
Hardcoded ==
  \/ resultFrom = "static"
  \/ resultFrom = "gemini" /\ ~Parseable(geminiText)
  \/ resultFrom = "pollinations" /\ ~Parseable(pollText)

\* C8: a hardcoded object is returned only after both tiers were attempted
\* and both failed.
C8_HardcodedOnlyAfterBothFailed ==
  (pc = "returned" /\ Hardcoded)
    => /\ TierSeq = <<"gemini", "pollinations">>
       /\ ~GeminiInFlight /\ ~PollInFlight
       /\ resultFrom /= "gemini"

(* -------------------------------- C9 ----------------------------------- *)
\* C9: while the primary call is pending no secondary call has been made,
\* and the two calls are never in flight together.
C9_NoConcurrentSecondary ==
  /\ GeminiInFlight => (pollCalls = 0 /\ poll = "idle")
  /\ ~(GeminiInFlight /\ PollInFlight)
  /\ PollInFlight => gemini \in {"idle", "failed", "aborted", "unread", "done"}

\* the primary body is still being read after the deadline, no secondary call
C9_Witness == gemini = "streaming" /\ elapsed /\ pollCalls = 0 /\ poll = "idle"

(* -------------------------------- C10 ---------------------------------- *)
\* C10: in one orchestration each tier is attempted at most once, primary
\* before secondary, and at most two network calls are made.
C10_NoRetryBoundedCalls ==
  /\ geminiCalls <= 1 /\ pollCalls <= 1
  /\ geminiCalls + pollCalls <= 2
  /\ TierSeq \in {<<>>, <<"gemini">>, <<"gemini", "pollinations">>}
  /\ pollCalls = 1 => TierSeq = <<"gemini", "pollinations">>
  /\ poll /= "idle" => gemini \notin {"pending", "streaming"}

\* both tiers were attempted, one network call each
C10_Witness ==
  /\ pc = "returned" /\ geminiCalls = 1 /\ pollCalls = 1
  /\ TierSeq = <<"gemini", "pollinations">>

(* -------------------------------- C11 ---------------------------------- *)
\* C11: parseResponse returns a value only for text that holds a complete
\* CampaignCopy; for malformed JSON, missing fields or wrong types it signals
\* failure, so no return statement hands on such a parse.
C11_ParserStrictness ==
  /\ (pc = "returned" /\ resultFrom = "gemini") => YieldsCopy(geminiText)
  /\ (pc = "returned" /\ resultFrom = "pollinations") => YieldsCopy(pollText)

(* -------------------------------- C12 ---------------------------------- *)
FencePrefixes == {<<TICKS, TAGJSON, NL>>, <<TICKS, NL>>}
FenceSuffixes == {<<NL, TICKS>>, <<NL, TICKS, NL>>}

\* the raw text is the JSON text b wrapped in markdown fences
Fenced(text, b) ==
  \E pre \in FencePrefixes, suf \in FenceSuffixes : text = Str(pre \o <<b>> \o suf)

\* the text the last return statement parsed
ParsedText ==
  IF resultFrom = "gemini" THEN geminiText
  ELSE IF resultFrom = "pollinations" THEN pollText ELSE NoText

C14_StaticHasCallToAction ==
  resultFrom = "static"
    => /\ result.t = "object"
       /\ \A k \in {"hook", "offer", "callToAction"} : k \in DOMAIN result.f /\ result.f[k] /= ""

\* C14 amended: the static fallback has exactly the fields hook, offer and
\* cta, each a non-empty string.
C14_StaticIsCompleteTriple ==
  resultFrom = "static"
    => /\ result.t = "object"
       /\ DOMAIN result.f = {"hook", "offer", "cta"}
       /\ \A k \in DOMAIN result.f : result.f[k] /= ""

\* both tiers failed and the static fallback was returned
C14_Witness ==
  /\ pc = "returned" /\ resultFrom = "static"
  /\ poll = "failed" /\ "cta" \in DOMAIN result.f

(* -------------------------------- C15 ---------------------------------- *)
\* callGeminiDirect has thrown: no key, abort by the deadline, connection
\* error, non-success status, body that is not JSON, data without the path
PrimaryFailed ==
  /\ TierSeq /= <<>>
  /\ \/ gemini \in {"idle", "aborted", "failed", "unread"}
     \/ gemini = "done" /\ geminiText = NoText

\* C15: after any kind of primary failure the secondary tier has been
\* invoked exactly once and the failure has neither been surfaced to the
\* caller nor ended the orchestration.
C15_UniformPrimaryFailure ==
  PrimaryFailed
    => /\ TierSeq = <<"gemini", "pollinations">>
       /\ pollCalls <= 1
       /\ pc \in {"poll_fetch", "poll_text", "returned"}
       /\ resultFrom \in {"none", "pollinations", "static"}

\* a non-success status of the primary tier led to the secondary call
C15_Witness ==
  /\ gemini = "unread" /\ timer = "cleared"
  /\ pc = "poll_fetch" /\ TierSeq = <<"gemini", "pollinations">>

(* -------------------------------- C16 ---------------------------------- *)
\* C16: parseResponse completes for every argument, also malformed JSON and
\* non-strings: the return statement that called it returns its value and
\* the invocation never rejects.
C16_ParserTotality ==
  /\ pc /= "rejected"
  /\ geminiText /= NoText
       => (pc = "returned" /\ resultFrom = "gemini" /\ result /= NoValue)
  /\ pollText /= NoText
       => (pc = "returned" /\ resultFrom = "pollinations" /\ result /= NoValue)
  /\ (geminiText /= NoText /\ ~Parseable(geminiText)) => result = ParserDefault
  /\ (pollText /= NoText /\ ~Parseable(pollText)) => result = ParserDefault

\* the primary body held no text, parseResponse(undefined) returned a value
C16_Witness ==
  /\ pc = "returned" /\ resultFrom = "gemini"
  /\ geminiText = Undefined /\ result = ParserDefault

(* -------------------------------- C20 ---------------------------------- *)
\* number of invocations of a tier function in this orchestration
Attempts(tier) == Cardinality({i \in 1..Len(log) : log[i].tier = tier})

\* C20 as stated: every attempt of a tier performs exactly one network call.
C20_OneCallPerAttempt ==
  /\ geminiCalls = Attempts("gemini")
  /\ pollCalls = Attempts("pollinations")

\* C20 amended: every attempt of a tier performs at most one network call,
\* and exactly one unless the tier function throws before its fetch: the
\* primary without an API key, the secondary when the prompt cannot be
\* URL-encoded.
C20_OneCallUnlessThrownBefore ==
  /\ geminiCalls = (IF apiKey THEN Attempts("gemini") ELSE 0)
  /\ pollCalls =
       (IF Encodable(fullPrompt(userRequest(topic, businessType)))
        THEN Attempts("pollinations") ELSE 0)
  /\ Attempts("gemini") <= 1 /\ Attempts("pollinations") <= 1

\* without a key the primary attempt made no call, the secondary made one
C20_Witness ==
  /\ pc = "returned" /\ ~apiKey
  /\ TierSeq = <<"gemini", "pollinations">>
  /\ geminiCalls = 0 /\ pollCalls = 1

(* -------------------------------- C17 ---------------------------------- *)
\* generateMarketingCopy is suspended at an await
Running == pc \in {"gemini_fetch", "gemini_json", "poll_fetch", "poll_text"}

\* C17: the wait on the primary path is bounded by the deadline timer, so,
\* the secondary call eventually answering or failing, every invocation
\* eventually reaches a terminal outcome.
C17_EventuallyTerminal == [](Running => <>(pc = "returned"))

(* -------------------------------- C19 ---------------------------------- *)
\* C19: when the orchestration call is cancelled while a provider call is in
\* flight, that provider call is cancelled.
C19_CancellationPropagates ==
  [][(~cancelled /\ cancelled') => (~GeminiInFlight' /\ ~PollInFlight')]_vars

(* -------------------------------- C18 ---------------------------------- *)
\* C18: interleaved invocations are independent: a step of one invocation,
\* in particular the firing of its deadline timer and the abort, leaves the
\* other invocation as it was.
C18_Independence ==
  [][/\ mainvars' /= mainvars => peer' = peer
     /\ peer' /= peer => mainvars' = mainvars
     /\ (timer = "armed" /\ timer' = "fired") => peer'.gemini = peer.gemini
     /\ (peer.timer = "armed" /\ peer'.timer = "fired") => (gemini' = gemini /\ pc' = pc)]_vars

\* the timer of one invocation has aborted its call while the call of the
\* other invocation is still pending
C18_Witness ==
  /\ timer = "fired" /\ gemini = "aborted"
  /\ peer.pc = "gemini_fetch" /\ peer.gemini = "pending" /\ peer.timer = "armed"

(* -------------------------------- C21 ---------------------------------- *)
\* what an invocation was given and what it observed of the providers:
\* its arguments, how each network call ended, the texts obtained, and the
\* position of those events relative to the deadline
Observed(s) ==
  <<s.topic, s.businessType, s.gemini, s.poll, s.geminiText, s.pollText, s.timer,
    s.geminiLate>>

\* what an invocation did: where it stands, its value and its tier calls
Outcome(s) ==
  <<s.pc, s.result, s.resultFrom, s.log, s.geminiCalls, s.pollCalls>>

\* C21: two invocations with the same arguments that observed the same
\* provider outcomes have returned equal values and made the same tier
\* calls, whether or not an earlier invocation ran before one of them.
C21_Determinism ==
  (pc /= "idle" /\ peer.pc /= "idle" /\ Observed(Cur) = Observed(peer))
    => Outcome(Cur) = Outcome(peer)

\* a later invocation of one caller and the first invocation of another saw
\* the same primary answer and both returned
C21_Witness ==
  /\ requests = 2 /\ pc = "returned" /\ peer.pc = "returned"
  /\ Observed(Cur) = Observed(peer)
  /\ resultFrom = "gemini" /\ result /= ParserDefault

(* -------------------------------- C22 ---------------------------------- *)
EmptyInput == topic = "" \/ businessType = ""

\* C22: an invocation with an empty topic or businessType is not validated:
\* the primary tier is attempted first, the secondary only after the primary
\* failed, the static default only after both, and the call never throws.
C22_EmptyInputsRunChain ==
  (pc /= "idle" /\ EmptyInput) =>
    /\ Len(log) >= 1 /\ log[1].tier = "gemini"
    /\ Len(log) >= 2 => (log[2].tier = "pollinations" /\ PrimaryFailed)
    /\ resultFrom = "static" => TierSeq = <<"gemini", "pollinations">>
    /\ resultFrom = "gemini" => (geminiCalls = 1 /\ TierSeq = <<"gemini">>)
    /\ pc /= "rejected"

\* both arguments empty, and the whole chain down to the static default ran
C22_Witness ==
  /\ topic = "" /\ businessType = "" /\ apiKey
  /\ pc = "returned" /\ resultFrom = "static"
  /\ geminiCalls = 1 /\ pollCalls = 1

(* -------------------------------- C23 ---------------------------------- *)
\* the system prompt followed by the single brief made of both arguments
ComposedPrompt ==
  <<ELITE_SYSTEM_PROMPT, "\n\nBrand Focus: ",
    "Business Type: ", businessType, ", Campaign Topic: ", topic>>

\* C23: every tier called in an orchestration is given the same composed
\* prompt: the system prompt, then one brief holding businessType and topic.
C23_SameBrief == \A i \in 1..Len(log) : log[i].prompt = ComposedPrompt

\* both tiers were called for a non-empty brief
C23_Witness ==
  /\ TierSeq = <<"gemini", "pollinations">>
  /\ topic = "Diwali Sale" /\ businessType = "Sweet Shop"
  /\ log[1].prompt = log[2].prompt /\ pollCalls = 1

(* -------------------------------- C24 ---------------------------------- *)
\* C24: once callGeminiDirect has returned or thrown, its timer is fired or
\* cleared: no timer is pending while the secondary tier runs or after the
\* orchestrator returned.
C24_TimerReleased ==
  pc \in {"poll_fetch", "poll_text", "returned"} => timer /= "armed"

(* -------------------------------- C25 ---------------------------------- *)
\* C25: the primary attempt never lasts beyond the 1.5 s budget: the body is
\* never still being read, and never settles, after the deadline has passed.
C25_DeadlineCoversBody ==
  /\ pc = "gemini_json" => ~elapsed
  /\ ~geminiLate

(* -------------------------------- C26 ---------------------------------- *)
\* C26: without an API key the primary tier makes no network call and arms
\* no timer, the secondary tier is invoked exactly once, and the
\* orchestration makes at most one network call.
C26_MissingKey ==
  (~apiKey /\ pc /= "idle") =>
    /\ geminiCalls = 0 /\ gemini = "idle" /\ timer = "none"
    /\ Attempts("pollinations") = 1
    /\ geminiCalls + pollCalls <= 1

\* no key, and the single network call of the orchestration answered
C26_Witness ==
  /\ ~apiKey /\ pc = "returned" /\ resultFrom = "pollinations"
  /\ geminiCalls = 0 /\ pollCalls = 1 /\ timer = "none"

(* -------------------------------- C27 ---------------------------------- *)
\* C27: when the body of the POST lacks a truthy business or a truthy topic,
\* the handler responds 400 and calls neither generateMarketingCopy nor
\* generatePoster.
C27_ValidationShortCircuits ==
  (post = "responded" /\ body.kind \in {"null", "object"} /\ ~Valid(body))
    => (response.status = 400 /\ postLog = <<>>)

(* -------------------------------- C28 ---------------------------------- *)
\* C28: for a valid request generatePoster is called only after
\* generateMarketingCopy has returned, each is called exactly once, and the
\* 200 response is produced only after both.
C28_HandlerOrdering ==
  [][/\ (postLog' /= postLog /\ Len(postLog') = 2)
          => /\ postLog = <<"generateMarketingCopy">>
             /\ postLog'[2] = "generatePoster"
             /\ pc = "returned"
     /\ post' = "copy" => postLog' = <<"generateMarketingCopy">>
     /\ (response'.status = 200 /\ response.status /= 200)
          => /\ postLog' = <<"generateMarketingCopy", "generatePoster">>
             /\ pc = "returned" /\ poster' /= NoUrl /\ Valid(body)]_vars

\* a 200 response whose copy came from the secondary tier
C28_Witness ==
  /\ post = "responded" /\ response.status = 200
  /\ postLog = <<"generateMarketingCopy", "generatePoster">>
  /\ pc = "returned" /\ resultFrom = "pollinations"

(* -------------------------------- C29 ---------------------------------- *)
\* C29: every POST produces a response, with status 400, 200 or 500.
C29_OneResponse ==
  [](post \in {"body", "copy"}
       => <>(post = "responded" /\ response.status \in {200, 400, 500}))

(* -------------------------------- C30 ---------------------------------- *)
\* C30: in every 200 response imageUrl is the url generatePoster returned
\* for this request, also when the strategy has an imageUrl of its own, and
\* every other key of the strategy is passed through unchanged.
C30_ImageUrlNotOverridden ==
  [][(response'.status = 200 /\ response' /= response) =>
       LET out == response'.body.f
           strat == OwnProps(result) IN
       /\ out.imageUrl = poster'
       /\ \E seed \in Seeds : poster' = generatePoster(body.topic, body.business, seed).url
       /\ DOMAIN out = DOMAIN strat \cup {"imageUrl"}
       /\ \A k \in DOMAIN strat \ {"imageUrl"} : out[k] = strat[k]]_vars

\* the provider's object carried an imageUrl and the response has the poster's
C30_Witness ==
  /\ post = "responded" /\ response.status = 200 /\ pc = "returned"
  /\ "imageUrl" \in DOMAIN OwnProps(result)
  /\ response.body.f.imageUrl = poster
  /\ poster /= result.f.imageUrl
  /\ response.body.f.hook = result.f.hook

====
